---- MODULE Spec2Model ----
(***************************************************************************)
(* Model of the football match report service: the dataset REST facade    *)
(* (src/main.py) and the report pipeline (src/report.py).                  *)
(*                                                                         *)
(* Every request handler is one action.  The upstream API is the           *)
(* environment: each action draws, for every fetch its handler may issue,  *)
(* either a failure (an exception with a message) or a JSON payload of a   *)
(* given shape.  The pure feature functions of _bundle are operators,      *)
(* exercised by the specification SpecFeat.                                *)
(***************************************************************************)
EXTENDS Integers, Sequences, FiniteSets, TLC

VARIABLES op, arg, calls, out

vars == <<op, arg, calls, out>>

(***************************************************************************)
(* Bounds of the model.                                                    *)
(***************************************************************************)
MaxOdds == 2
MaxGames == 2
MaxScored == 2
MaxGoals == 2

(***************************************************************************)
(* JSON values.  A number is the rational n/d (d > 0); a string carries    *)
(* its text in s; a list or dict in a scalar position carries its length   *)
(* in n.  "missing" is a key that is absent from its mapping.              *)
(***************************************************************************)
JMissing == [k |-> "missing", n |-> 0, d |-> 1, s |-> ""]
JNull == [k |-> "null", n |-> 0, d |-> 1, s |-> ""]
JInt(i) == [k |-> "int", n |-> i, d |-> 1, s |-> ""]
JFloat(a, b) == [k |-> "float", n |-> a, d |-> b, s |-> ""]
JBool(b) == [k |-> "bool", n |-> IF b THEN 1 ELSE 0, d |-> 1, s |-> ""]
JStr(t) == [k |-> "str", n |-> 0, d |-> 1, s |-> t]
JList(len) == [k |-> "list", n |-> len, d |-> 1, s |-> ""]
JDict(len) == [k |-> "dict", n |-> len, d |-> 1, s |-> ""]

\* dict.get(key): an absent key reads as None
Get(v) == IF v.k = "missing" THEN JNull ELSE v

\* isinstance(x, (int, float)): bool is a subclass of int
IsIntOrFloat(x) == x.k \in {"int", "float", "bool"}

\* isinstance(x, int)
IsInt(x) == x.k \in {"int", "bool"}

\* truth value of a Python object
Truthy(x) ==
    CASE x.k \in {"missing", "null"} -> FALSE
      [] x.k \in {"int", "float", "bool"} -> x.n # 0
      [] x.k = "str" -> x.s # ""
      [] OTHER -> x.n > 0

(***************************************************************************)
(* Exact rational arithmetic on [n, d] with d > 0.                         *)
(***************************************************************************)
RECURSIVE Gcd(_, _)
Gcd(a, b) == IF b = 0 THEN a ELSE Gcd(b, a % b)

Abs(i) == IF i < 0 THEN -i ELSE i

Rat(a, b) ==
    LET sgn == IF b < 0 THEN -1 ELSE 1
        g == Gcd(Abs(a), Abs(b))
    IN  [n |-> (sgn * a) \div g, d |-> (sgn * b) \div g]

RAdd(x, y) == Rat(x.n * y.d + y.n * x.d, x.d * y.d)
RDiv(x, y) == Rat(x.n * y.d, x.d * y.n)
RInv(x) == Rat(x.d, x.n)
RPos(x) == x.n > 0

\* 1e-9 as the rational 1/EpsInv
EpsInv == 1000000000

\* x > 1e-9, i.e. n/d > 1/EpsInv, without leaving the integer range
GtEps(x) == x.n > 0 /\ x.n > (x.d \div EpsInv)

(***************************************************************************)
(* _implied_probs_1x2 (src/main.py:132-150).  mw is a non-mapping value    *)
(* or a mapping [k |-> "dict", home, draw, away].                          *)
(***************************************************************************)
MwDict(h, d, a) == [k |-> "dict", home |-> h, draw |-> d, away |-> a]
MwOther(kind) == [k |-> kind, home |-> JMissing, draw |-> JMissing, away |-> JMissing]

\* the variant abs(x) > 1e-9
OddsOkAbs(x) == IsIntOrFloat(x) /\ GtEps([n |-> Abs(x.n), d |-> x.d])

\* isinstance(x, (int, float)) and x > 1e-9
OddsOk(x) == IsIntOrFloat(x) /\ GtEps(x)

\* the variant that leaves the away quote out of the sum
OverroundTwo(ih, idr, ia) == RAdd(ih, idr)

\* s = ih + idr + ia
Overround(ih, idr, ia) == RAdd(RAdd(ih, idr), ia)

_implied_probs_1x2(mw) ==
    IF mw.k # "dict" THEN [available |-> FALSE]
    ELSE LET h == Get(mw.home)
             d == Get(mw.draw)
             a == Get(mw.away)
         IN  IF ~(OddsOk(h) /\ OddsOk(d) /\ OddsOk(a)) THEN [available |-> FALSE]
             ELSE LET ih == RInv(h)
                      idr == RInv(d)
                      ia == RInv(a)
                      s == Overround(ih, idr, ia)
                  IN  IF ~RPos(s) THEN [available |-> FALSE]
                      ELSE [available |-> TRUE,
                            home |-> RDiv(ih, s),
                            draw |-> RDiv(idr, s),
                            away |-> RDiv(ia, s),
                            overround |-> s]

(***************************************************************************)
(* _handicap_available (src/main.py:174-181).                              *)
(***************************************************************************)
HcDict(m, h, a) == [k |-> "dict", market |-> m, home |-> h, away |-> a]
HcOther(kind) == [k |-> kind, market |-> JMissing, home |-> JMissing, away |-> JMissing]

IsNone(v) == Get(v).k = "null"

\* the variant that wants both quotes
NoHandicapOddsEither(hc) == IsNone(hc.home) \/ IsNone(hc.away)

\* hc.get("home") is None and hc.get("away") is None
NoHandicapOdds(hc) == IsNone(hc.home) /\ IsNone(hc.away)

_handicap_available(hc) ==
    IF hc.k # "dict" THEN [available |-> FALSE]
    ELSE IF IsNone(hc.market) THEN [available |-> FALSE]
    ELSE IF NoHandicapOdds(hc) THEN [available |-> FALSE]
    ELSE [available |-> TRUE, market |-> Get(hc.market)]

(***************************************************************************)
(* avg_goals_per_game of _bundle (src/main.py:236-246).  h2h is what the   *)
(* head-to-head fetch left: nothing, a non-mapping, or a mapping whose     *)
(* stats.overall is missing, a non-mapping, or a mapping with the three    *)
(* aggregates gp, s1, s2.                                                  *)
(***************************************************************************)
H2hOverall(gp, s1, s2) == [shape |-> "overall", gp |-> gp, s1 |-> s1, s2 |-> s2]
H2hShape(shape) == [shape |-> shape, gp |-> JMissing, s1 |-> JMissing, s2 |-> JMissing]

\* float(text) on the texts the model draws: surrounding blanks are ignored
ParseFloat(t) ==
    CASE t = "0" -> [ok |-> TRUE, n |-> 0, d |-> 1]
      [] t = "2" -> [ok |-> TRUE, n |-> 2, d |-> 1]
      [] t = " 3 " -> [ok |-> TRUE, n |-> 3, d |-> 1]
      [] t = "1.5" -> [ok |-> TRUE, n |-> 3, d |-> 2]
      [] OTHER -> [ok |-> FALSE, n |-> 0, d |-> 1]

\* float(x): ok is FALSE where Python raises TypeError or ValueError
ToFloat(x) ==
    CASE x.k \in {"int", "float", "bool"} -> [ok |-> TRUE, n |-> x.n, d |-> x.d]
      [] x.k = "str" -> ParseFloat(x.s)
      [] OTHER -> [ok |-> FALSE, n |-> 0, d |-> 1]

\* the variant float(s) without the default
OrZeroNone(x) == x

\* s or 0
OrZero(x) == IF Truthy(x) THEN x ELSE JInt(0)

\* the body of the try block: exc is TRUE where it raises
AvgGoalsTry(ov) ==
    LET gp == Get(ov.gp)
        s1 == Get(ov.s1)
        s2 == Get(ov.s2)
        fgp == ToFloat(gp)
        f1 == ToFloat(OrZero(s1))
        f2 == ToFloat(OrZero(s2))
    IN  IF ~Truthy(gp) THEN [exc |-> FALSE, k |-> "null", n |-> 0, d |-> 1]
        ELSE IF ~fgp.ok THEN [exc |-> TRUE, k |-> "null", n |-> 0, d |-> 1]
        ELSE IF ~(fgp.n > 0) THEN [exc |-> FALSE, k |-> "null", n |-> 0, d |-> 1]
        ELSE IF ~f1.ok \/ ~f2.ok THEN [exc |-> TRUE, k |-> "null", n |-> 0, d |-> 1]
        ELSE LET q == RDiv(RAdd(f1, f2), fgp)
             IN  [exc |-> FALSE, k |-> "float", n |-> q.n, d |-> q.d]

\* _safe_get(h2h, ["stats", "overall"]) if isinstance(h2h, dict) else None
H2hOverallIsDict(h2h) == h2h.shape = "overall"

AvgGoals(h2h) ==
    IF ~H2hOverallIsDict(h2h) THEN [raised |-> FALSE, k |-> "null", n |-> 0, d |-> 1]
    ELSE LET r == AvgGoalsTry(h2h)
         IN  IF r.exc THEN [raised |-> FALSE, k |-> "null", n |-> 0, d |-> 1]
             ELSE [raised |-> FALSE, k |-> r.k, n |-> r.n, d |-> r.d]

(***************************************************************************)
(* label of _bundle (src/main.py:224-229).  lm is the part of the match    *)
(* payload the label reads: status, and goals as a mapping or not.         *)
(***************************************************************************)
LabelMatch(status, goalsKind, hft, aft) ==
    [status |-> status, goals |-> goalsKind, hft |-> hft, aft |-> aft]

\* text.strip().lower() on the texts the model draws
StripLower(t) ==
    CASE t = "finished" -> "finished"
      [] t = " Finished " -> "finished"
      [] t = "FINISHED" -> "finished"
      [] t = "live" -> "live"
      [] t = "LIVE" -> "live"
      [] t = "FT" -> "ft"
      [] t = "not started" -> "not started"
      [] OTHER -> t

\* str(v) of a truthy non-string value the model draws
StrOf(v) == IF v.k = "str" THEN v.s ELSE IF v.k = "bool" THEN "True" ELSE "1"

\* str(match.get("status") or "").strip().lower()
StatusWord(v) == IF Truthy(Get(v)) THEN StripLower(StrOf(Get(v))) ELSE ""

\* _safe_get(match, ["goals", key])
GoalsGet(lm, v) == IF lm.goals = "dict" THEN Get(v) ELSE JNull

\* the variant that forgets the sign test
GoalCountOkAnySign(x) == IsInt(x)

\* isinstance(x, int) and x >= 0
GoalCountOk(x) == IsInt(x) /\ x.n >= 0

Label(lm) ==
    LET status == StatusWord(lm.status)
        hft == GoalsGet(lm, lm.hft)
        aft == GoalsGet(lm, lm.aft)
    IN  IF status = "finished" /\ GoalCountOk(hft) /\ GoalCountOk(aft)
        THEN JInt(hft.n + aft.n)
        ELSE JNull

(***************************************************************************)
(* The upstream API as the handlers see it.  A fetch either raises (shape  *)
(* "err", with the message of the exception) or returns a JSON payload.    *)
(*                                                                         *)
(* A match payload m:                                                      *)
(*   shape   "err", "empty" (a falsy value), "list" (a truthy value that   *)
(*           is no mapping) or "dict"                                      *)
(*   has     the keys present among id, date, time, status, minute,        *)
(*           winner, goals (each well-formed when present)                 *)
(*   mp      match_preview: "absent", "nondict", or a mapping whose        *)
(*           has_preview is True ("true"), truthy but not True ("truthy")  *)
(*   league  league.id; JMissing when the payload has no league            *)
(*   teams   "absent", "null" or "dict"; home and away are the ids of the  *)
(*           two entries, JMissing where teams has no such entry           *)
(* The payloads drawn carry winner "TBD" and no stage, stadium, odds,      *)
(* lineups or events.                                                      *)
(***************************************************************************)
MaxIds == 2
MaxItems == 2
MaxBlocks == 1

AllKeys == {"id", "date", "time", "status", "minute", "winner", "goals"}

ErrMsgs == {"HTTP 500: upstream down", "Invalid JSON response"}
EnrichErrMsg == "HTTP 404: not found"
AttrErrMsg == "object has no attribute 'get'"

MatchErr(msg) ==
    [shape |-> "err", msg |-> msg, has |-> {}, mp |-> "absent", league |-> JMissing,
     teams |-> "absent", home |-> JMissing, away |-> JMissing]

MatchNonDict(shape) ==
    [shape |-> shape, msg |-> "", has |-> {}, mp |-> "absent", league |-> JMissing,
     teams |-> "absent", home |-> JMissing, away |-> JMissing]

MatchDict(has, mp, league, teams, home, away) ==
    [shape |-> "dict", msg |-> "", has |-> has, mp |-> mp, league |-> league,
     teams |-> teams, home |-> home, away |-> away]

World(m, pv, st, hh) == [match |-> m, preview |-> pv, standing |-> st, h2h |-> hh]

PreviewKinds == {"err", "list", "no_match_data", "bad_match_data", "ok_no_content", "ok"}
StandingKinds == {"err", "list", "ok"}
H2hKinds == {"err", "list", "ok"}

Call(ep, i) == [ep |-> ep, i |-> i]

Raise(exc, msg) == [kind |-> "raise", exc |-> exc, msg |-> msg]

\* the id of one side's team entry as both pipelines read it
TeamId(m, side) == IF m.teams = "dict" THEN Get(m[side]) ELSE JNull

(***************************************************************************)
(* Text.  A Python str is the sequence of its characters; a value that may *)
(* be None is [none, s].                                                   *)
(***************************************************************************)
\* the lower-case form of an ASCII letter; any other character is kept
LowerChar(c) ==
    LET UpperLetters ==
            <<"A", "B", "C", "D", "E", "F", "G", "H", "I", "J", "K", "L", "M",
              "N", "O", "P", "Q", "R", "S", "T", "U", "V", "W", "X", "Y", "Z">>
        LowerLetters ==
            <<"a", "b", "c", "d", "e", "f", "g", "h", "i", "j", "k", "l", "m",
              "n", "o", "p", "q", "r", "s", "t", "u", "v", "w", "x", "y", "z">>
    IN  IF \E j \in DOMAIN UpperLetters : UpperLetters[j] = c
        THEN LowerLetters[CHOOSE j \in DOMAIN UpperLetters : UpperLetters[j] = c]
        ELSE c

\* str.lower()
Lower(s) == [j \in DOMAIN s |-> LowerChar(s[j])]

IsSpace(c) == c \in {" ", "\t", "\n"}

RECURSIVE LStrip(_)
LStrip(s) == IF s # <<>> /\ IsSpace(Head(s)) THEN LStrip(Tail(s)) ELSE s

RECURSIVE RStrip(_)
RStrip(s) ==
    IF s # <<>> /\ IsSpace(s[Len(s)]) THEN RStrip(SubSeq(s, 1, Len(s) - 1)) ELSE s

\* str.strip()
Strip(s) == RStrip(LStrip(s))

\* sub in s
Contains(s, sub) ==
    \E j \in 0..(Len(s) - Len(sub)) : SubSeq(s, j + 1, j + Len(sub)) = sub

NameNone == [none |-> TRUE, s |-> <<>>]
Name(s) == [none |-> FALSE, s |-> s]

TBD == <<"T", "B", "D">>

\* the names _clean_name takes as missing, once stripped and lowered
MissingNames == {<<"n", "o", "n", "e">>, <<"n", "u", "l", "l">>, <<>>}

\* the variant that compares before it strips
CleanNameCompareFirst(x) ==
    LET s == IF x.none THEN <<>> ELSE x.s
    IN  IF Lower(s) \in MissingNames THEN TBD ELSE Strip(s)

\* _clean_name
_clean_name(x) ==
    LET s == IF x.none THEN <<>> ELSE Strip(x.s)
    IN  IF Lower(s) \in MissingNames THEN TBD ELSE s

\* _pos_bucket
_pos_bucket(pos) ==
    LET p == Lower(Strip(IF pos.none THEN <<>> ELSE pos.s))
    IN  IF Contains(p, <<"g", "o", "a", "l">>) \/ p = <<"g", "k">> THEN "GK"
        ELSE IF Contains(p, <<"d", "e", "f">>) \/ p = <<"d">> THEN "DEF"
        ELSE IF Contains(p, <<"m", "i", "d">>) \/ p = <<"m">> THEN "MID"
        ELSE IF Contains(p, <<"a", "t", "t">>) \/ Contains(p, <<"f", "o", "r", "w">>)
                \/ p = <<"f">> THEN "ATT"
        ELSE "OTHER"

\* the starting XI is the first 11 entries
XiSize == 11

\* the places j in 1..n, ascending, with keys[j] = k
RECURSIVE Places(_, _, _)
Places(keys, n, k) ==
    IF n = 0 THEN <<>>
    ELSE Places(keys, n - 1, k) \o (IF keys[n] = k THEN <<n>> ELSE <<>>)

\* the variant that buckets every entry of the list
FormatXiAll(players) ==
    LET keys == [j \in DOMAIN players |-> _pos_bucket(players[j])]
        Bucket(k) == Places(keys, Len(players), k)
        Line(k) == IF Bucket(k) # <<>> THEN <<[k |-> k, who |-> Bucket(k)]>> ELSE <<>>
        lines == Line("GK") \o Line("DEF") \o Line("MID") \o Line("ATT") \o Line("OTHER")
    IN  IF lines # <<>> THEN lines ELSE <<[k |-> "XI: Not available", who |-> <<>>]>>

\* _format_xi: one line per non-empty bucket; a line lists its players (who:
\* their places in the lineup) in lineup order
_format_xi(players) ==
    LET n == IF Len(players) < XiSize THEN Len(players) ELSE XiSize
        keys == [j \in 1..n |-> _pos_bucket(players[j])]
        Bucket(k) == Places(keys, n, k)
        Line(k) == IF Bucket(k) # <<>> THEN <<[k |-> k, who |-> Bucket(k)]>> ELSE <<>>
        lines == Line("GK") \o Line("DEF") \o Line("MID") \o Line("ATT") \o Line("OTHER")
    IN  IF lines # <<>> THEN lines ELSE <<[k |-> "XI: Not available", who |-> <<>>]>>

(***************************************************************************)
(* report.py: _get_complete_match and FootballMatch.                       *)
(***************************************************************************)
\* _extract_preview_signals: None unless match_data is a mapping
_extract_preview_signals(pv) == IF pv = "no_match_data" THEN "none" ELSE pv

\* the fields FootballMatch declares without a default
RequiredKeys == {"id", "date", "time", "status", "minute", "winner", "goals"}

\* FootballMatch.model_validate on the enriched payload
ModelValid(m, dp, st, hh) ==
    /\ RequiredKeys \subseteq m.has
    /\ m.league.k = "int"
    /\ m.teams = "dict"
    /\ \A side \in {"home", "away"} : m[side].k \in {"missing", "int"}
    /\ m.mp # "nondict"
    /\ dp \in {"none", "ok", "ok_no_content"}
    /\ st \in {"none", "ok"}
    /\ hh \in {"none", "ok"}

\* the standing table drawn has a row for team 1 and for team 2
_standing_lookup(st, teamId) == st = "ok" /\ teamId \in {1, 2}

\* one line of the report: the section it belongs to, what it shows, and
\* the places (in the lineup or the event list) of the entries it shows
LnWho(sec, t, who) == [sec |-> sec, t |-> t, who |-> who]

\* odds: a market is absent or holds three values, each null or a number
MarketNone == [k |-> "none", a |-> JNull, b |-> JNull, c |-> JNull]
Market(a, b, c) == [k |-> "market", a |-> a, b |-> b, c |-> c]
NoOdds == [k |-> "none", mw |-> MarketNone, ou |-> MarketNone, hc |-> MarketNone]
Odds(mw, ou, hc) == [k |-> "odds", mw |-> mw, ou |-> ou, hc |-> hc]

\* lineups: formation strings, XI position strings, sidelined player names
NoLineups ==
    [k |-> "none", fh |-> NameNone, fa |-> NameNone, xh |-> <<>>, xa |-> <<>>,
     sh |-> <<>>, sa |-> <<>>]
Lineups(fh, fa, xh, xa, sh, sa) ==
    [k |-> "lineups", fh |-> fh, fa |-> fa, xh |-> xh, xa |-> xa, sh |-> sh, sa |-> sa]

\* an event, as far as the report tells events apart
MatchEvent(event_type, team) == [event_type |-> event_type, team |-> team]

\* header lines (report.py:316-329)
HeaderSection(rec) ==
    <<LnWho("header", "header", <<>>), LnWho("header", "match_id", <<>>), LnWho("header", "competition", <<>>)>>
    \o (IF rec.stage THEN <<LnWho("header", "stage", <<>>)>> ELSE <<>>)
    \o <<LnWho("header", "kickoff", <<>>), LnWho("header", "venue", <<>>)>>

\* status, score and winner lines (report.py:331-346)
ScoreSection(rec) ==
    <<LnWho("score", "", <<>>), LnWho("score", "status", <<>>), LnWho("score", "score", <<>>)>>
    \o (IF _clean_name(rec.winner) # TBD THEN <<LnWho("score", "winner", <<>>)>> ELSE <<>>)

\* preview lines (report.py:348-358)
PreviewSection(rec) ==
    IF rec.detailed_preview # "none"
    THEN <<LnWho("preview", "", <<>>)>>
         \o (IF rec.weather THEN <<LnWho("preview", "weather", <<>>)>> ELSE <<>>)
         \o <<LnWho("preview", "excitement", <<>>)>>
         \o (IF rec.prediction THEN <<LnWho("preview", "prediction", <<>>)>> ELSE <<>>)
    ELSE <<>>

\* table snapshot lines (report.py:360-377)
TableSection(rec) ==
    LET homeId == IF rec.home.k = "int" THEN rec.home.n ELSE 0
        awayId == IF rec.away.k = "int" THEN rec.away.n ELSE 0
        hRow == _standing_lookup(rec.standing, homeId)
        aRow == _standing_lookup(rec.standing, awayId)
    IN  IF rec.standing # "none" /\ homeId # 0 /\ awayId # 0 /\ (hRow \/ aRow)
        THEN <<LnWho("table", "", <<>>), LnWho("table", "table_snapshot", <<>>)>>
             \o (IF hRow THEN <<LnWho("table", "table_home", <<>>)>> ELSE <<>>)
             \o (IF aRow THEN <<LnWho("table", "table_away", <<>>)>> ELSE <<>>)
        ELSE <<>>

\* the lines of the three markets (report.py:384-398)
MarketLines(odds) ==
    (IF odds.mw.k # "none" /\ \E v \in {odds.mw.a, odds.mw.b, odds.mw.c} : v.k # "null"
     THEN <<LnWho("odds", "1X2", <<>>)>> ELSE <<>>)
    \o (IF odds.ou.k # "none" /\ odds.ou.a.k # "null"
           /\ (odds.ou.b.k # "null" \/ odds.ou.c.k # "null")
        THEN <<LnWho("odds", "over_under", <<>>)>> ELSE <<>>)
    \o (IF odds.hc.k # "none" /\ odds.hc.a.k # "null"
           /\ (odds.hc.b.k # "null" \/ odds.hc.c.k # "null")
        THEN <<LnWho("odds", "handicap", <<>>)>> ELSE <<>>)

\* the variant that prints the Odds heading whether or not there are odds
OddsSectionAlways(rec) ==
    <<LnWho("odds", "", <<>>), LnWho("odds", "Odds", <<>>)>> \o MarketLines(rec.odds)

\* odds lines (report.py:379-398)
OddsSection(rec) ==
    IF rec.odds.k # "none"
    THEN <<LnWho("odds", "", <<>>), LnWho("odds", "Odds", <<>>)>> \o MarketLines(rec.odds)
    ELSE <<>>

\* _format_sidelined: one line, unless every name cleans to the placeholder
_format_sidelined(title, items) ==
    LET keys == [j \in DOMAIN items |->
                    IF _clean_name(items[j]) = TBD THEN "dropped" ELSE "kept"]
        parts == Places(keys, Len(items), "kept")
    IN  IF parts # <<>> THEN <<LnWho("lineups", title, parts)>> ELSE <<>>

\* lineups lines (report.py:400-429)
LineupsSection(rec) ==
    LET lu == rec.lineups
        FormationShown(f) ==
            ~f.none /\ f.s # <<>> /\ Lower(f.s) # <<"n", "o", "n", "e">>
        XiLines(lines) ==
            [j \in DOMAIN lines |-> LnWho("lineups", lines[j].k, lines[j].who)]
        extra == _format_sidelined("sidelined_home", lu.sh)
                 \o _format_sidelined("sidelined_away", lu.sa)
    IN  IF lu.k # "none"
        THEN <<LnWho("lineups", "", <<>>), LnWho("lineups", "Lineups", <<>>)>>
             \o (IF FormationShown(lu.fh) /\ FormationShown(lu.fa)
                 THEN <<LnWho("lineups", "formations", <<>>)>>
                 ELSE <<LnWho("lineups", "formations_not_announced", <<>>)>>)
             \o <<LnWho("lineups", "", <<>>), LnWho("lineups", "home_xi", <<>>)>> \o XiLines(_format_xi(lu.xh))
             \o <<LnWho("lineups", "", <<>>), LnWho("lineups", "away_xi", <<>>)>> \o XiLines(_format_xi(lu.xa))
             \o (IF extra # <<>> THEN <<LnWho("lineups", "", <<>>)>> \o extra ELSE <<>>)
        ELSE <<>>

\* others[:25]
OtherCap == 25

\* the first n entries of a list
Take(s, n) == SubSeq(s, 1, IF Len(s) < n THEN Len(s) ELSE n)

\* a category of the Events section: its heading, then one line per event
CategoryLines(cat, places) ==
    IF places # <<>>
    THEN <<LnWho("events", cat, <<>>)>>
         \o [j \in DOMAIN places |-> LnWho("events", cat, <<places[j]>>)]
    ELSE <<>>

\* the category of each event: goals, yellows and subs by the lowered event
\* type, others by not being equal to any event of those three lists
EventKeys(events) ==
    LET GoalType == <<"g", "o", "a", "l">>
        YellowType == <<"y", "e", "l", "l", "o", "w", "_", "c", "a", "r", "d">>
        SubstitutionType ==
            <<"s", "u", "b", "s", "t", "i", "t", "u", "t", "i", "o", "n">>
        byType == [j \in DOMAIN events |->
                     LET t == Lower(events[j].event_type)
                     IN  IF t = GoalType THEN "Goals"
                         ELSE IF t = YellowType THEN "Yellow cards"
                         ELSE IF t = SubstitutionType THEN "Substitutions"
                         ELSE "none"]
    IN  [j \in DOMAIN events |->
            IF \E m \in DOMAIN events : byType[m] # "none" /\ events[m] = events[j]
            THEN byType[j] ELSE "Other"]

\* the variant that caps every category
EventsSectionCapAll(rec) ==
    LET keys == EventKeys(rec.events)
        Of(cat) == Places(keys, Len(rec.events), cat)
    IN  IF rec.events # <<>>
        THEN <<LnWho("events", "", <<>>), LnWho("events", "Events", <<>>)>>
             \o CategoryLines("Goals", Take(Of("Goals"), OtherCap))
             \o CategoryLines("Yellow cards", Take(Of("Yellow cards"), OtherCap))
             \o CategoryLines("Substitutions", Take(Of("Substitutions"), OtherCap))
             \o CategoryLines("Other", Take(Of("Other"), OtherCap))
        ELSE <<>>

\* events lines (report.py:431-467)
EventsSection(rec) ==
    LET keys == EventKeys(rec.events)
        Of(cat) == Places(keys, Len(rec.events), cat)
    IN  IF rec.events # <<>>
        THEN <<LnWho("events", "", <<>>), LnWho("events", "Events", <<>>)>>
             \o CategoryLines("Goals", Of("Goals"))
             \o CategoryLines("Yellow cards", Of("Yellow cards"))
             \o CategoryLines("Substitutions", Of("Substitutions"))
             \o CategoryLines("Other", Take(Of("Other"), OtherCap))
        ELSE <<>>

\* generate_report_main: the lines of the report
generate_report_main(rec) ==
    HeaderSection(rec) \o ScoreSection(rec) \o PreviewSection(rec) \o TableSection(rec)
    \o OddsSection(rec) \o LineupsSection(rec) \o EventsSection(rec)

\* the validated record of a payload that carries winner "TBD" and no stage,
\* weather, prediction, odds, lineups or events
MatchRecord(home, away, dp, st, hh) ==
    [kind |-> "match", home |-> home, away |-> away, detailed_preview |-> dp,
     standing |-> st, h2h |-> hh, stage |-> FALSE, winner |-> Name(TBD),
     weather |-> FALSE, prediction |-> FALSE, odds |-> NoOdds, lineups |-> NoLineups,
     events |-> <<>>]

\* the last step of _get_complete_match, after the three enrichments
CompleteValidate(m, cs, dp, st, hh) ==
    IF ModelValid(m, dp, st, hh)
    THEN [calls |-> cs, res |-> MatchRecord(m.home, m.away, dp, st, hh)]
    ELSE [calls |-> cs, res |-> Raise("ValidationError", "validation error for FootballMatch")]

\* the head-to-head step and what follows
CompleteH2h(w, i, cs, dp, st) ==
    LET m == w.match
        home == TeamId(m, "home")
        away == TeamId(m, "away")
    IN  IF Truthy(home) /\ Truthy(away) /\ home.n # away.n
        THEN CompleteValidate(m, Append(cs, Call("head-to-head/", i)), dp, st,
                              IF w.h2h = "err" THEN "none" ELSE w.h2h)
        ELSE CompleteValidate(m, cs, dp, st, "none")

\* the standing step and what follows
CompleteStanding(w, i, cs, dp) ==
    IF w.match.league.k # "missing" /\ Truthy(w.match.league)
    THEN CompleteH2h(w, i, Append(cs, Call("standing/", i)), dp,
                     IF w.standing = "err" THEN "none" ELSE w.standing)
    ELSE CompleteH2h(w, i, cs, dp, "none")

\* the preview step and what follows: nothing catches what the fetch or the
\* extraction raises
CompletePreview(w, i, cs) ==
    IF w.match.mp = "true"
    THEN LET cs2 == Append(cs, Call("match-preview/", i))
         IN  IF w.preview = "err"
             THEN [calls |-> cs2, res |-> Raise("RuntimeError", EnrichErrMsg)]
             ELSE IF w.preview = "list"
             THEN [calls |-> cs2, res |-> Raise("AttributeError", AttrErrMsg)]
             ELSE CompleteStanding(w, i, cs2, _extract_preview_signals(w.preview))
    ELSE CompleteStanding(w, i, cs, "none")

_get_complete_match(w, i) ==
    LET cs == <<Call("match/", i)>>
    IN  IF w.match.shape = "err"
        THEN [calls |-> cs, res |-> Raise("RuntimeError", w.match.msg)]
        ELSE IF w.match.shape # "dict"
        THEN [calls |-> cs, res |-> Raise("RuntimeError", "Empty match response")]
        ELSE CompletePreview(w, i, cs)

\* build_report_texts
build_report_texts(w) ==
    LET c == _get_complete_match(w, 1)
    IN  IF c.res.kind = "raise" THEN c
        ELSE [calls |-> c.calls,
              res |-> [kind |-> "text", lines |-> generate_report_main(c.res),
                       detailed_preview |-> c.res.detailed_preview,
                       standing |-> c.res.standing, h2h |-> c.res.h2h]]

(***************************************************************************)
(* main.py: _bundle and the REST handlers.                                 *)
(***************************************************************************)
BadGateway == 502
HttpOk == 200

\* the variant that answers an upstream failure like a success
HTTPExceptionOk(msg) == [kind |-> "http", status |-> HttpOk, detail |-> msg]

\* raise HTTPException(status_code=502, detail=str(e))
HTTPException(msg) == [kind |-> "http", status |-> BadGateway, detail |-> msg]

Ok(body) == [kind |-> "http", status |-> HttpOk, body |-> body]

\* _extract_preview: None unless match_data is a mapping and content a
\* non-empty list
_extract_preview(pv) == IF pv \in {"ok", "bad_match_data"} THEN pv ELSE "none"

\* _standing_row: the row of the team in the table, if any
_standing_row(st, team) == st = "ok" /\ team.k = "int" /\ team.n \in {1, 2}

\* the features dictionary reads match.get("teams", {}).get(...): a teams value
\* of None has no get
BundleResult(m, cs, pv, st, hh) ==
    IF m.teams = "null"
    THEN [calls |-> cs, res |-> Raise("AttributeError", AttrErrMsg)]
    ELSE [calls |-> cs,
          res |-> [kind |-> "bundle", preview |-> pv, standing |-> st, h2h |-> hh,
                   row_home |-> _standing_row(st, TeamId(m, "home")),
                   row_away |-> _standing_row(st, TeamId(m, "away"))]]

\* the variant that does not compare the two team ids
BundleH2hSameTeam(w, i, cs, pv, st) ==
    LET m == w.match
        home == TeamId(m, "home")
        away == TeamId(m, "away")
    IN  IF IsInt(home) /\ IsInt(away)
        THEN BundleResult(m, Append(cs, Call("head-to-head/", i)), pv, st,
                          IF w.h2h = "err" THEN "none" ELSE w.h2h)
        ELSE BundleResult(m, cs, pv, st, "none")

\* the head-to-head step of _bundle and what follows
BundleH2h(w, i, cs, pv, st) ==
    LET m == w.match
        home == TeamId(m, "home")
        away == TeamId(m, "away")
    IN  IF IsInt(home) /\ IsInt(away) /\ home.n # away.n
        THEN BundleResult(m, Append(cs, Call("head-to-head/", i)), pv, st,
                          IF w.h2h = "err" THEN "none" ELSE w.h2h)
        ELSE BundleResult(m, cs, pv, st, "none")

\* the variant that asks for the table again after a failure
BundleStandingRetry(w, i, cs, pv) ==
    IF IsInt(w.match.league)
    THEN BundleH2h(w, i,
                   IF w.standing = "err"
                   THEN cs \o <<Call("standing/", i), Call("standing/", i)>>
                   ELSE Append(cs, Call("standing/", i)),
                   pv, IF w.standing = "err" THEN "none" ELSE w.standing)
    ELSE BundleH2h(w, i, cs, pv, "none")

\* the standing step of _bundle and what follows
BundleStanding(w, i, cs, pv) ==
    IF IsInt(w.match.league)
    THEN BundleH2h(w, i, Append(cs, Call("standing/", i)), pv,
                   IF w.standing = "err" THEN "none" ELSE w.standing)
    ELSE BundleH2h(w, i, cs, pv, "none")

\* _bundle: match["id"] is read before the preview fetch, inside its try
_bundle(w, i, cs) ==
    IF w.match.mp = "true" /\ "id" \in w.match.has
    THEN BundleStanding(w, i, Append(cs, Call("match-preview/", i)),
                        IF w.preview = "err" THEN "none" ELSE _extract_preview(w.preview))
    ELSE BundleStanding(w, i, cs, "none")

\* GET /dataset/match/{match_id}
dataset_match(w) ==
    LET cs == <<Call("match/", 1)>>
    IN  IF w.match.shape = "err"
        THEN [calls |-> cs, res |-> HTTPException(w.match.msg)]
        ELSE LET b == _bundle(w, 1, cs)
             IN  IF b.res.kind = "raise"
                 THEN [calls |-> b.calls, res |-> HTTPException(b.res.msg)]
                 ELSE [calls |-> b.calls, res |-> Ok(b.res)]

\* GET /dataset/matches: the loop over match_ids from the i-th on; a match
\* whose fetch or bundle raises is skipped
RECURSIVE MatchesLoop(_, _, _, _)
MatchesLoop(ws, i, cs, bundles) ==
    IF i > Len(ws) THEN [calls |-> cs, res |-> Ok(bundles)]
    ELSE LET cs1 == Append(cs, Call("match/", i))
         IN  IF ws[i].match.shape = "err"
             THEN MatchesLoop(ws, i + 1, cs1, bundles)
             ELSE LET b == _bundle(ws[i], i, cs1)
                  IN  IF b.res.kind = "raise"
                      THEN MatchesLoop(ws, i + 1, b.calls, bundles)
                      ELSE MatchesLoop(ws, i + 1, b.calls, Append(bundles, b.res))

dataset_matches(ws) == MatchesLoop(ws, 1, <<>>, <<>>)

\* GET /raw/...: the six passthrough handlers
RawEndpoints ==
    {"match/", "match-preview/", "standing/", "head-to-head/",
     "match-previews-upcoming/", "matches/"}

raw_endpoint(ep, resp) ==
    [calls |-> <<Call(ep, 1)>>,
     res |-> IF resp.shape = "err" THEN HTTPException(resp.msg) ELSE Ok(resp.shape)]

\* GET /dataset/upcoming
RECURSIVE UpcomingFilter(_, _)
UpcomingFilter(items, league_id) ==
    IF items = <<>> THEN <<>>
    ELSE LET item == Head(items)
             keep == item.dict /\ (league_id.k = "null" \/ Get(item.lid) = league_id)
         IN  (IF keep THEN <<item>> ELSE <<>>) \o UpcomingFilter(Tail(items), league_id)

dataset_upcoming(league_id, resp) ==
    [calls |-> <<Call("match-previews-upcoming/", 1)>>,
     res |-> IF resp.shape = "err" THEN HTTPException(resp.msg)
             ELSE Ok([items |-> IF resp.shape = "list"
                                THEN UpcomingFilter(resp.items, league_id) ELSE <<>>])]

\* GET /dataset/season-matches
RECURSIVE SelectDict(_)
SelectDict(ms) ==
    IF ms = <<>> THEN <<>>
    ELSE (IF Head(ms).dict THEN <<Head(ms)>> ELSE <<>>) \o SelectDict(Tail(ms))

RECURSIVE FlattenBlocks(_)
FlattenBlocks(blocks) ==
    IF blocks = <<>> THEN <<>>
    ELSE (IF Head(blocks).kind = "matches" THEN SelectDict(Head(blocks).ms) ELSE <<>>)
         \o FlattenBlocks(Tail(blocks))

RECURSIVE SelectFinished(_)
SelectFinished(ms) ==
    IF ms = <<>> THEN <<>>
    ELSE (IF StatusWord(Head(ms).status) = "finished" THEN <<Head(ms)>> ELSE <<>>)
         \o SelectFinished(Tail(ms))

RECURSIVE IntIds(_)
IntIds(ms) ==
    IF ms = <<>> THEN <<>>
    ELSE (IF IsInt(Head(ms).id) THEN <<Head(ms).id.n>> ELSE <<>>) \o IntIds(Tail(ms))

Min(a, b) == IF a < b THEN a ELSE b

dataset_season_matches(only_finished, limit, resp) ==
    LET all == IF resp.shape = "list" THEN FlattenBlocks(resp.blocks) ELSE <<>>
        fin == IF only_finished THEN SelectFinished(all) ELSE all
        cut == IF limit.k = "int" /\ limit.n > 0
               THEN SubSeq(fin, 1, Min(limit.n, Len(fin))) ELSE fin
        ids == IntIds(cut)
    IN  [calls |-> <<Call("matches/", 1)>>,
         res |-> IF resp.shape = "err" THEN HTTPException(resp.msg)
                 ELSE Ok([count |-> Len(ids), match_ids |-> ids, matches |-> cut])]

\* GET /health
health == [calls |-> <<>>, res |-> Ok([ok |-> TRUE])]

(***************************************************************************)
(* The two HTTP clients.  A response is its status and its body; a body is *)
(* non-JSON text, or a JSON object (with or without a detail field), list  *)
(* or scalar.                                                              *)
(***************************************************************************)
Body(json, k, has_detail, detail) ==
    [json |-> json, k |-> k, has_detail |-> has_detail, detail |-> detail]

\* r.status_code >= 400
ErrorStatus == 400

\* the text after "HTTP <status>: ": the body's detail field or the whole body
DetailOf(body) ==
    [of |-> IF body.k = "dict" /\ body.has_detail THEN "detail" ELSE "body", body |-> body]

HttpError(status, body) ==
    Raise("RuntimeError", [form |-> "HTTP", status |-> status, detail |-> DetailOf(body)])

\* a failure whose message holds neither the status nor the body
ClientError(exc, form) ==
    Raise(exc, [form |-> form, status |-> 0,
                detail |-> DetailOf(Body(FALSE, "text", FALSE, JNull))])

Data(body) == [kind |-> "data", body |-> body]

\* SoccerDataApi._get (main.py)
SoccerDataApi_get(r) ==
    IF ~r.key THEN ClientError("RuntimeError", "API_KEY is missing")
    ELSE IF ~r.body.json THEN ClientError("RuntimeError", "Invalid JSON response")
    ELSE IF r.status >= ErrorStatus THEN HttpError(r.status, r.body)
    ELSE Data(r.body)

\* API._get (report.py): data.get is called whatever the body is
API_get(r) ==
    IF ~r.key THEN ClientError("RuntimeError", "API_KEY is missing")
    ELSE IF ~r.body.json THEN ClientError("RuntimeError", "Invalid JSON response")
    ELSE IF r.status >= ErrorStatus
         THEN IF r.body.k = "dict" THEN HttpError(r.status, r.body)
              ELSE ClientError("AttributeError", AttrErrMsg)
    ELSE Data(r.body)

(***************************************************************************)
(* The requests and upstream answers the handlers are run on.              *)
(***************************************************************************)
HasVals == {AllKeys, {"id", "goals"}, AllKeys \ {"id"}, AllKeys \ {"goals"}}
MpVals == {"absent", "nondict", "true", "truthy"}
LeagueVals == {JMissing, JInt(0), JInt(228)}
HomeVals == {JMissing, JNull, JInt(1)}
AwayVals == {JMissing, JInt(1), JInt(2)}

MatchPayloads ==
    {MatchErr(msg) : msg \in ErrMsgs}
    \cup {MatchNonDict(sh) : sh \in {"empty", "list"}}
    \cup {MatchDict(has, mp, lg, "dict", h, a) :
            has \in HasVals, mp \in MpVals, lg \in LeagueVals, h \in HomeVals, a \in AwayVals}
    \cup {MatchDict(has, mp, lg, t, JMissing, JMissing) :
            has \in HasVals, mp \in MpVals, lg \in LeagueVals, t \in {"absent", "null"}}

Worlds ==
    {World(m, pv, st, hh) :
        m \in MatchPayloads, pv \in PreviewKinds, st \in StandingKinds, hh \in H2hKinds}

\* a complete, well-formed match payload with a preview, a league and two teams
GoodMatch == MatchDict(AllKeys, "true", JInt(228), "dict", JInt(1), JInt(2))

BatchWorlds ==
    {World(m, pv, st, hh) :
        m \in {MatchErr("HTTP 500: upstream down"), GoodMatch,
               MatchDict(AllKeys, "true", JInt(228), "null", JMissing, JMissing)},
        pv \in {"err", "ok"}, st \in {"err", "ok"}, hh \in {"err", "ok"}}

SeqsUpTo(S, n) == UNION {[1..k -> S] : k \in 0..n}

FetchErrs == {[shape |-> "err", msg |-> msg] : msg \in ErrMsgs}

RawResps == FetchErrs \cup {[shape |-> sh, msg |-> ""] : sh \in {"dict", "list"}}

UpcomingItems ==
    {[dict |-> FALSE, lid |-> JMissing], [dict |-> TRUE, lid |-> JMissing],
     [dict |-> TRUE, lid |-> JInt(228)], [dict |-> TRUE, lid |-> JInt(999)]}

UpcomingResps ==
    {[shape |-> "err", msg |-> msg, items |-> <<>>] : msg \in ErrMsgs}
    \cup {[shape |-> "dict", msg |-> "", items |-> <<>>]}
    \cup {[shape |-> "list", msg |-> "", items |-> it] : it \in SeqsUpTo(UpcomingItems, MaxItems)}

SeasonEntries ==
    {[dict |-> FALSE, status |-> JMissing, id |-> JMissing],
     [dict |-> TRUE, status |-> JStr("finished"), id |-> JInt(10)],
     [dict |-> TRUE, status |-> JStr("live"), id |-> JInt(11)],
     [dict |-> TRUE, status |-> JStr(" Finished "), id |-> JNull]}

SeasonBlocks ==
    {[kind |-> kd, ms |-> <<>>] : kd \in {"nondict", "no_matches"}}
    \cup {[kind |-> "matches", ms |-> ms] : ms \in SeqsUpTo(SeasonEntries, MaxItems)}

SeasonResps ==
    {[shape |-> "err", msg |-> msg, blocks |-> <<>>] : msg \in ErrMsgs}
    \cup {[shape |-> "dict", msg |-> "", blocks |-> <<>>]}
    \cup {[shape |-> "list", msg |-> "", blocks |-> bs] : bs \in SeqsUpTo(SeasonBlocks, MaxBlocks)}

NoOut == [kind |-> "none"]

(***************************************************************************)
(* Spec: one action per request handler.  Requests share no state: every   *)
(* handler starts from its own request and the upstream's answers and      *)
(* leaves the fetches it issued (calls) and its answer (out).              *)
(***************************************************************************)
Init ==
    /\ op = "idle"
    /\ arg = [none |-> TRUE]
    /\ calls = <<>>
    /\ out = NoOut

ReportCommand ==
    /\ op = "idle"
    /\ \E w \in Worlds :
        LET r == build_report_texts(w)
        IN  /\ op' = "report"
            /\ arg' = [w |-> w]
            /\ calls' = r.calls
            /\ out' = r.res

DatasetMatch ==
    /\ op = "idle"
    /\ \E w \in Worlds :
        LET r == dataset_match(w)
        IN  /\ op' = "dataset_match"
            /\ arg' = [w |-> w]
            /\ calls' = r.calls
            /\ out' = r.res

DatasetMatches ==
    /\ op = "idle"
    /\ \E n \in 1..MaxIds : \E ws \in [1..n -> BatchWorlds] :
        LET r == dataset_matches(ws)
        IN  /\ op' = "dataset_matches"
            /\ arg' = [ws |-> ws]
            /\ calls' = r.calls
            /\ out' = r.res

RawEndpoint ==
    /\ op = "idle"
    /\ \E ep \in RawEndpoints, resp \in RawResps :
        LET r == raw_endpoint(ep, resp)
        IN  /\ op' = "raw"
            /\ arg' = [ep |-> ep, resp |-> resp]
            /\ calls' = r.calls
            /\ out' = r.res

DatasetUpcoming ==
    /\ op = "idle"
    /\ \E league_id \in {JNull, JInt(228), JInt(999)}, resp \in UpcomingResps :
        LET r == dataset_upcoming(league_id, resp)
        IN  /\ op' = "dataset_upcoming"
            /\ arg' = [league_id |-> league_id, resp |-> resp]
            /\ calls' = r.calls
            /\ out' = r.res

DatasetSeasonMatches ==
    /\ op = "idle"
    /\ \E only_finished \in BOOLEAN, limit \in {JNull, JInt(0), JInt(1)},
          resp \in SeasonResps :
        LET r == dataset_season_matches(only_finished, limit, resp)
        IN  /\ op' = "dataset_season_matches"
            /\ arg' = [only_finished |-> only_finished, limit |-> limit, resp |-> resp]
            /\ calls' = r.calls
            /\ out' = r.res

Health ==
    /\ op = "idle"
    /\ op' = "health"
    /\ arg' = [none |-> TRUE]
    /\ calls' = health.calls
    /\ out' = health.res

\* the answer is delivered; nothing of the request is kept
Discard ==
    /\ op # "idle"
    /\ op' = "idle"
    /\ arg' = [none |-> TRUE]
    /\ calls' = <<>>
    /\ out' = NoOut

Next ==
    \/ ReportCommand
    \/ DatasetMatch
    \/ DatasetMatches
    \/ RawEndpoint
    \/ DatasetUpcoming
    \/ DatasetSeasonMatches
    \/ Health
    \/ Discard

Spec == Init /\ [][Next]_vars

(***************************************************************************)
(* Claims about the pipelines and the REST handlers (checked under Spec).  *)
(***************************************************************************)
SingleMatchOps == {"report", "dataset_match"}

\* the primary payload is a mapping that FootballMatch accepts by itself
PrimaryWellFormed(m) == m.shape = "dict" /\ ModelValid(m, "none", "none", "none")

\* the pipeline of the request completed and returned its record or bundle
Completed ==
    \/ op = "report" /\ out.kind = "text"
    \/ op = "dataset_match" /\ out.kind = "http" /\ out.status = HttpOk

\* what the completed record or bundle holds for an enrichment
Held(e) ==
    IF op = "report"
    THEN (CASE e = "preview" -> out.detailed_preview
            [] e = "standing" -> out.standing
            [] e = "h2h" -> out.h2h)
    ELSE out.body[e]

Endpoint(e) ==
    CASE e = "preview" -> "match-preview/"
      [] e = "standing" -> "standing/"
      [] e = "h2h" -> "head-to-head/"

Enrichments == {"preview", "standing", "h2h"}

\* the request carries a preview flag, a league id and two distinct team ids,
\* so that each pipeline has reason to issue all three enrichment fetches
AllThreeDue(m) ==
    /\ m.shape = "dict" /\ "id" \in m.has /\ m.mp = "true"
    /\ m.league = JInt(228)
    /\ m.teams = "dict" /\ m.home = JInt(1) /\ m.away = JInt(2)

\* C1: in both pipelines a failure of any enrichment fetch, a response of
\* unexpected shape included, is never propagated: for a well-formed primary
\* payload the pipeline completes.
C1_EnrichmentFailureAbsorbed ==
    (op \in SingleMatchOps /\ PrimaryWellFormed(arg.w.match)) => Completed

\* C2: the enrichment fetches are independent: for a match with a league id and
\* two distinct team ids, a failed fetch of one enrichment neither prevents
\* the fetch of another from being issued nor discards its result.
C2_EnrichmentsIndependent ==
    (op \in SingleMatchOps /\ PrimaryWellFormed(arg.w.match) /\ AllThreeDue(arg.w.match))
    => \A e \in Enrichments, f \in Enrichments :
         (e # f /\ arg.w[e] = "err" /\ arg.w[f] = "ok")
         => /\ \E j \in 1..Len(calls) : calls[j].ep = Endpoint(f)
            /\ Completed
            /\ Held(f) = "ok"

Rank(ep) ==
    CASE ep = "match/" -> 0
      [] ep = "match-preview/" -> 1
      [] ep = "standing/" -> 2
      [] ep = "head-to-head/" -> 3
      [] OTHER -> 4

\* the fetches of a request for n matches: match by match, each match's own
\* fetch first, then its enrichments in the order preview, standing,
\* head-to-head, none of them twice
C3_MatchByMatch(cs, n) ==
    /\ Len(cs) >= n
    /\ n >= 1 => cs[1] = Call("match/", 1)
    /\ \A j \in 1..Len(cs) : cs[j].i \in 1..n /\ Rank(cs[j].ep) <= 3
    /\ \A i \in 1..n : Cardinality({j \in 1..Len(cs) : cs[j] = Call("match/", i)}) = 1
    /\ \A j \in 1..(Len(cs) - 1) :
         \/ cs[j + 1] = Call("match/", cs[j].i + 1)
         \/ cs[j + 1].i = cs[j].i /\ Rank(cs[j].ep) < Rank(cs[j + 1].ep)

\* C3 (amended): every request issues a bounded, sequential series of fetches:
\* none for /health, exactly one for a /raw, /dataset/upcoming or
\* /dataset/season-matches call, and for a report or dataset request one
\* primary fetch per requested match (one per match id of /dataset/matches),
\* each followed by at most three enrichment fetches of that match (preview,
\* standing, head-to-head, in this order), no endpoint fetched twice for the
\* same match and none retried after a failure.
C3_BoundedSequentialFetches ==
    /\ op = "health" => calls = <<>>
    /\ op = "raw" => calls = <<Call(arg.ep, 1)>>
    /\ op = "dataset_upcoming" => calls = <<Call("match-previews-upcoming/", 1)>>
    /\ op = "dataset_season_matches" => calls = <<Call("matches/", 1)>>
    /\ op \in SingleMatchOps => C3_MatchByMatch(calls, 1)
    /\ op = "dataset_matches" => C3_MatchByMatch(calls, Len(arg.ws))

\* C3 as stated: every request that fetches issues exactly one primary fetch
\* followed by at most three enrichment fetches, each endpoint at most once.
C3_Original ==
    op \in {"report", "dataset_match", "dataset_matches", "raw", "dataset_upcoming",
            "dataset_season_matches"}
    => /\ Len(calls) \in 1..4
       /\ \A j \in 2..Len(calls) : Rank(calls[j].ep) \in 1..3
       /\ \A j \in 1..Len(calls), l \in 1..Len(calls) :
            calls[j].ep = calls[l].ep => j = l

C3_Witness ==
    /\ op = "dataset_matches"
    /\ Len(arg.ws) = 2
    /\ arg.ws[1].standing = "err"
    /\ calls = <<Call("match/", 1), Call("match-preview/", 1), Call("standing/", 1),
                 Call("head-to-head/", 1), Call("match/", 2), Call("match-preview/", 2),
                 Call("standing/", 2), Call("head-to-head/", 2)>>

\* the primary fetch of a single-fetch request failed
PrimaryFailed ==
    \/ op \in SingleMatchOps /\ arg.w.match.shape = "err"
    \/ op \in {"raw", "dataset_upcoming", "dataset_season_matches"} /\ arg.resp.shape = "err"

PrimaryMsg == IF op \in SingleMatchOps THEN arg.w.match.msg ELSE arg.resp.msg

\* the matches of a /dataset/matches request whose fetch and bundle succeed
Bundled(ws) == {i \in 1..Len(ws) : ws[i].match.shape # "err" /\ ws[i].match.teams # "null"}

C4_WitnessSkipped ==
    /\ op = "dataset_matches"
    /\ Len(arg.ws) = 2
    /\ arg.ws[1].match.shape = "err"
    /\ arg.ws[2].match = GoodMatch
    /\ out.status = 200 /\ Len(out.body) = 1

\* the four structurally required fields are present and well-formed
FourRequired(m) ==
    /\ m.shape = "dict"
    /\ {"id", "goals"} \subseteq m.has
    /\ m.league.k = "int"
    /\ m.teams = "dict" /\ m.home.k = "int" /\ m.away.k = "int"

\* C5: a payload that carries the four required fields (id, teams, league,
\* goals) is accepted by normalization, and its report is produced and holds
\* the header line, a Status line and a Score line.
C5_FourFieldsRender ==
    (op = "report" /\ FourRequired(arg.w.match) /\ arg.w.match.mp = "absent"
     /\ arg.w.standing = "ok" /\ arg.w.h2h = "ok")
    => /\ out.kind = "text"
       /\ \A ln \in {"header", "status", "score"} :
            \E j \in 1..Len(out.lines) : out.lines[j].t = ln

(***************************************************************************)
(* The inputs the feature functions are applied to.                        *)
(***************************************************************************)
OddsVals ==
    {JMissing, JNull, JStr("2.5"), JBool(TRUE), JBool(FALSE), JFloat(0, 1),
     JFloat(-3, 2), JFloat(1, EpsInv)}
    \cup {JInt(i) : i \in -1..MaxOdds}
    \cup {JFloat(2 * j + 1, 2) : j \in 0..MaxOdds}

MwInputs ==
    {MwOther(kind) : kind \in {"null", "list", "str"}}
    \cup {MwDict(h, d, a) : h \in OddsVals, d \in OddsVals, a \in OddsVals}

HcMarketVals == {JMissing, JNull, JStr("AH"), JFloat(-3, 2), JInt(0), JBool(FALSE)}
HcOddsVals == {JMissing, JNull, JFloat(3, 2), JInt(0), JStr("x")}

HcInputs ==
    {HcOther(kind) : kind \in {"null", "list", "str"}}
    \cup {HcDict(m, h, a) : m \in HcMarketVals, h \in HcOddsVals, a \in HcOddsVals}

GamesVals ==
    {JMissing, JNull, JStr(""), JStr("0"), JStr("2"), JStr(" 3 "), JStr("abc"),
     JBool(TRUE), JList(0), JList(1), JFloat(3, 2), JFloat(-3, 2)}
    \cup {JInt(i) : i \in -1..MaxGames}

ScoredVals ==
    {JMissing, JNull, JStr(""), JStr("2"), JStr("abc"), JList(1), JFloat(3, 2)}
    \cup {JInt(i) : i \in 0..MaxScored}

H2hInputs ==
    {H2hShape(sh) : sh \in {"none", "list", "no_stats", "overall_nondict"}}
    \cup {H2hOverall(gp, s1, s2) : gp \in GamesVals, s1 \in ScoredVals, s2 \in ScoredVals}

StatusVals ==
    {JMissing, JNull, JStr(""), JStr("finished"), JStr(" Finished "), JStr("FINISHED"),
     JStr("live"), JStr("FT"), JInt(1)}

GoalVals ==
    {JMissing, JNull, JStr("2"), JFloat(2, 1), JFloat(3, 2), JBool(TRUE)}
    \cup {JInt(i) : i \in -1..MaxGoals}

LabelInputs ==
    {LabelMatch(st, g, JMissing, JMissing) : st \in StatusVals, g \in {"missing", "list"}}
    \cup {LabelMatch(st, "dict", h, a) : st \in StatusVals, h \in GoalVals, a \in GoalVals}

(***************************************************************************)
(* SpecFeat: a feature function applied to one drawn input.                *)
(***************************************************************************)
InitFeat ==
    /\ op = "idle"
    /\ calls = <<>>
    /\ out = NoOut
    /\ \/ \E v \in MwInputs : arg = [fn |-> "implied_1x2", v |-> v]
       \/ \E v \in HcInputs : arg = [fn |-> "handicap", v |-> v]
       \/ \E v \in H2hInputs : arg = [fn |-> "avg_goals", v |-> v]
       \/ \E v \in LabelInputs : arg = [fn |-> "label", v |-> v]

Implied1x2 ==
    /\ op = "idle" /\ arg.fn = "implied_1x2"
    /\ op' = "implied_1x2"
    /\ out' = _implied_probs_1x2(arg.v)
    /\ UNCHANGED <<arg, calls>>

HandicapAvailable ==
    /\ op = "idle" /\ arg.fn = "handicap"
    /\ op' = "handicap"
    /\ out' = _handicap_available(arg.v)
    /\ UNCHANGED <<arg, calls>>

AvgGoalsPerGame ==
    /\ op = "idle" /\ arg.fn = "avg_goals"
    /\ op' = "avg_goals"
    /\ out' = AvgGoals(arg.v)
    /\ UNCHANGED <<arg, calls>>

LabelOf ==
    /\ op = "idle" /\ arg.fn = "label"
    /\ op' = "label"
    /\ out' = Label(arg.v)
    /\ UNCHANGED <<arg, calls>>

NextFeat == Implied1x2 \/ HandicapAvailable \/ AvgGoalsPerGame \/ LabelOf

SpecFeat == InitFeat /\ [][NextFeat]_vars

(***************************************************************************)
(* Claims about the feature functions (checked under SpecFeat).            *)
(***************************************************************************)
IsNumber(x) == x.k \in {"int", "float", "bool"}

\* a quote that is missing, not a number, zero or negative (Python counts the
\* booleans as the integers 1 and 0)
C6_BadQuote(x) == ~IsNumber(Get(x)) \/ Get(x).n <= 0

\* C6: if the match_winner value is no mapping, or any of its home, draw, away
\* quotes is missing, non-numeric, zero or negative, _implied_probs_1x2 returns
\* exactly {available: false}, with no other field.
C6_UnavailableOnBadQuote ==
    (op = "implied_1x2"
     /\ (arg.v.k # "dict" \/ C6_BadQuote(arg.v.home) \/ C6_BadQuote(arg.v.draw)
         \/ C6_BadQuote(arg.v.away)))
    => out = [available |-> FALSE]

C6_Witness ==
    /\ op = "implied_1x2"
    /\ arg.v = MwDict(JFloat(3, 2), JInt(2), JInt(0))
    /\ out = [available |-> FALSE]

\* the three probabilities and the overround of result r for the quotes h, d, a,
\* stated by cross-multiplication
C7_Normalised(r, h, d, a) ==
    /\ r.available = TRUE
    /\ r.overround.n * (h.n * d.n * a.n)
         = r.overround.d * (h.d * d.n * a.n + d.d * h.n * a.n + a.d * h.n * d.n)
    /\ r.home.n * h.n * r.overround.n = r.home.d * h.d * r.overround.d
    /\ r.draw.n * d.n * r.overround.n = r.draw.d * d.d * r.overround.d
    /\ r.away.n * a.n * r.overround.n = r.away.d * a.d * r.overround.d
    /\ r.home.n * r.draw.d * r.away.d + r.draw.n * r.home.d * r.away.d
         + r.away.n * r.home.d * r.draw.d = r.home.d * r.draw.d * r.away.d
    /\ \A p \in {r.home, r.draw, r.away} : 0 < p.n /\ p.n < p.d

C7_AllAbove(v) ==
    /\ v.k = "dict"
    /\ \A x \in {v.home, v.draw, v.away} : IsNumber(x) /\ GtEps(x)

C7_AllPositive(v) ==
    /\ v.k = "dict"
    /\ \A x \in {v.home, v.draw, v.away} : IsNumber(x) /\ x.n > 0

C8_Present(x) == x.k \notin {"missing", "null"}

\* C8: _handicap_available reports available: true if and only if the value is
\* a mapping whose market is present (non-null) and at least one of whose home
\* and away quotes is present (non-null).
C8_AvailableIff ==
    op = "handicap"
    => (out.available
        <=> (arg.v.k = "dict" /\ C8_Present(arg.v.market)
             /\ (C8_Present(arg.v.home) \/ C8_Present(arg.v.away))))

C8_Witness ==
    /\ op = "handicap"
    /\ arg.v = HcDict(JStr("AH"), JNull, JFloat(3, 2))
    /\ out.available = TRUE

\* an aggregate the computation can use: it converts to a float
C9_Converts(x) == ToFloat(x).ok

\* a scored aggregate as the code counts it: 0 when missing or falsy
C9_Scored(x) == IF Truthy(Get(x)) THEN ToFloat(Get(x)) ELSE [ok |-> TRUE, n |-> 0, d |-> 1]

C9_GamesUsable(v) ==
    /\ v.shape = "overall"
    /\ Truthy(Get(v.gp)) /\ C9_Converts(Get(v.gp)) /\ ToFloat(Get(v.gp)).n > 0

\* out is (s1 + s2) / gp, by cross-multiplication
C9_IsQuotient(r, gp, s1, s2) ==
    /\ r.k = "float"
    /\ r.n * (gp.n * s1.d * s2.d) = r.d * (gp.d * (s1.n * s2.d + s2.n * s1.d))

\* C9 (amended): avg_goals_per_game never raises; it equals
\* (float(s1 or 0) + float(s2 or 0)) / float(gp) when games_played is truthy and
\* converts to a float greater than 0 and each scored aggregate is falsy
\* (counted as 0) or converts to a float (numeric strings included); it is null
\* in every other case.
C9_AvgGoals ==
    op = "avg_goals"
    => /\ out.raised = FALSE
       /\ IF C9_GamesUsable(arg.v) /\ C9_Scored(arg.v.s1).ok /\ C9_Scored(arg.v.s2).ok
          THEN C9_IsQuotient(out, ToFloat(Get(arg.v.gp)), C9_Scored(arg.v.s1),
                             C9_Scored(arg.v.s2))
          ELSE out.k = "null"

C9_NonNumeric(x) == x.k \in {"str", "list", "dict"}

\* C9 as stated: the quotient of the three numbers when games_played > 0, and
\* null when games_played is missing, zero or negative or any of the three
\* inputs is non-numeric; never raises.
C9_Original ==
    op = "avg_goals"
    => /\ out.raised = FALSE
       /\ (arg.v.shape = "overall"
           /\ \A x \in {arg.v.gp, arg.v.s1, arg.v.s2} : IsNumber(x)
           /\ arg.v.gp.n > 0)
          => C9_IsQuotient(out, arg.v.gp, arg.v.s1, arg.v.s2)
       /\ (arg.v.shape # "overall"
           \/ ~Truthy(Get(arg.v.gp)) \/ (IsNumber(arg.v.gp) /\ arg.v.gp.n <= 0)
           \/ \E x \in {arg.v.gp, arg.v.s1, arg.v.s2} : C9_NonNumeric(x))
          => out.k = "null"

C9_Witness ==
    /\ op = "avg_goals"
    /\ arg.v = H2hOverall(JInt(2), JMissing, JInt(1))
    /\ out.k = "float" /\ out.n = 1 /\ out.d = 2

C9_WitnessZeroGames ==
    /\ op = "avg_goals"
    /\ arg.v = H2hOverall(JInt(0), JInt(1), JInt(1))
    /\ out.k = "null"

C10_Finished(st) == st \in {JStr("finished"), JStr(" Finished "), JStr("FINISHED")}

C10_Count(x) == x.k \in {"int", "bool"} /\ x.n >= 0

\* C10: the label is home_ft_goals + away_ft_goals exactly when the status is
\* "finished" (ignoring case and surrounding blanks) and both full-time goal
\* counts are present non-negative integers (Python counts a boolean as the
\* integer 1 or 0); in every other case it is null.
C10_Label ==
    op = "label"
    => IF C10_Finished(arg.v.status) /\ arg.v.goals = "dict"
          /\ C10_Count(arg.v.hft) /\ C10_Count(arg.v.aft)
       THEN out.k = "int" /\ out.n = arg.v.hft.n + arg.v.aft.n
       ELSE out.k = "null"

C10_Witness ==
    /\ op = "label"
    /\ arg.v = LabelMatch(JStr("finished"), "dict", JInt(2), JInt(1))
    /\ out = JInt(3)

C10_WitnessLive ==
    /\ op = "label"
    /\ arg.v = LabelMatch(JStr("live"), "dict", JInt(2), JInt(1))
    /\ out = JNull

(***************************************************************************)
(* The inputs the text functions, the renderer and the clients are run on. *)
(***************************************************************************)
MaxNameLen == 5
MaxPosLen == 3
MaxPattern == 2
MaxPlayers == 12
MaxEvents == 52

NameInputs ==
    {NameNone}
    \cup {Name(s) : s \in SeqsUpTo({" ", "n", "N", "o", "e", "u", "l"}, MaxNameLen)}
    \cup {Name(<<"T", "B", "D">>),
     Name(<<"T", "b", "d">>),
     Name(<<" ", "N", "o", "n", "e", " ">>),
     Name(<<"N", "U", "L", "L">>),
     Name(<<" ", "N", "u", "l", "l", "\t">>),
     Name(<<"0">>),
     Name(<<"A", "n", "n">>)}

PosInputs ==
    {NameNone}
    \cup {Name(s) : s \in SeqsUpTo({" ", "d", "D", "m", "f", "e"}, MaxPosLen)}
    \cup {Name(<<"G", "o", "a", "l", "k", "e", "e", "p", "e", "r">>),
     Name(<<"G", "K">>),
     Name(<<" ", "g", "k", " ">>),
     Name(<<"G">>),
     Name(<<"D", "e", "f", "e", "n", "d", "e", "r">>),
     Name(<<"M", "i", "d", "f", "i", "e", "l", "d", "e", "r">>),
     Name(<<"A", "t", "t", "a", "c", "k", "e", "r">>),
     Name(<<"F", "o", "r", "w", "a", "r", "d">>),
     Name(<<"F">>),
     Name(<<"C", "D", "M">>),
     Name(<<"L", "M">>),
     Name(<<"S", "u", "b">>)}

\* a list of n entries that repeats a pattern
Cycle(pattern, n) ==
    IF pattern = <<>> THEN <<>>
    ELSE [j \in 1..n |-> pattern[((j - 1) % Len(pattern)) + 1]]

XiInputs ==
    LET XiPositions ==
            {Name(<<"G", "K">>),
             Name(<<"D">>),
             Name(<<"M", "i", "d", "f", "i", "e", "l", "d", "e", "r">>),
             Name(<<"F">>),
             Name(<<"S", "u", "b">>)}
    IN  {Cycle(p, n) : p \in SeqsUpTo(XiPositions, MaxPattern), n \in 0..MaxPlayers}

EventInputs ==
    LET EventTypes ==
            {<<"g", "o", "a", "l">>,
             <<"G", "o", "a", "l">>,
             <<"y", "e", "l", "l", "o", "w", "_", "c", "a", "r", "d">>,
             <<"s", "u", "b", "s", "t", "i", "t", "u", "t", "i", "o", "n">>,
             <<"r", "e", "d", "_", "c", "a", "r", "d">>,
             <<>>}
        EventPool ==
            {MatchEvent(t, "home") : t \in EventTypes}
            \cup {MatchEvent(<<"g", "o", "a", "l">>, "away")}
    IN  {Cycle(p, n) : p \in SeqsUpTo(EventPool, MaxPattern), n \in 0..MaxEvents}

\* validated records: every combination of present and absent sections, and
\* every event list on a record with no other optional section
RenderInputs ==
    LET RenderPreviews ==
            {[dp |-> "none", extras |-> FALSE], [dp |-> "ok", extras |-> FALSE],
             [dp |-> "ok", extras |-> TRUE]}
        RenderOdds ==
            {NoOdds, Odds(MarketNone, MarketNone, MarketNone),
             Odds(Market(JNull, JNull, JNull), Market(JNull, JFloat(3, 2), JNull),
                  Market(JFloat(-3, 2), JNull, JNull)),
             Odds(Market(JFloat(3, 2), JNull, JNull),
                  Market(JFloat(5, 2), JFloat(3, 2), JNull),
                  Market(JFloat(-3, 2), JNull, JFloat(2, 1)))}
        RenderLineups ==
            {NoLineups,
             Lineups(NameNone, Name(<<"4", "-", "4", "-", "2">>), <<>>, <<>>, <<>>,
                     <<NameNone, Name(<<"n", "o", "n", "e">>)>>),
             Lineups(Name(<<"4", "-", "3", "-", "3">>), Name(<<"N", "o", "n", "e">>),
                     Cycle(<<Name(<<"G", "K">>), Name(<<"D">>)>>, MaxPlayers),
                     <<Name(<<"F">>)>>, <<Name(<<"A", "n", "n">>), NameNone>>, <<>>),
             Lineups(Name(<<"4", "-", "3", "-", "3">>), Name(<<"4", "-", "4", "-", "2">>),
                     <<Name(<<"S", "u", "b">>)>>, <<>>, <<>>, <<Name(<<"A", "n", "n">>)>>)}
        RenderEvents ==
            {<<>>,
             <<MatchEvent(<<"y", "e", "l", "l", "o", "w", "_", "c", "a", "r", "d">>, "home"), MatchEvent(<<"G", "o", "a", "l">>, "away"),
               MatchEvent(<<"v", "a", "r">>, "home"), MatchEvent(<<"g", "o", "a", "l">>, "home")>>}
    IN  {[kind |-> "match", home |-> h, away |-> JInt(2), detailed_preview |-> pv.dp,
          standing |-> st, h2h |-> "none", stage |-> pv.extras, winner |-> w,
          weather |-> pv.extras, prediction |-> pv.extras, odds |-> od, lineups |-> lu,
          events |-> ev] :
            h \in {JMissing, JInt(1)}, pv \in RenderPreviews, st \in {"none", "ok"},
            w \in {Name(TBD), Name(<<"h", "o", "m", "e">>)}, od \in RenderOdds,
            lu \in RenderLineups, ev \in RenderEvents}
        \cup {[MatchRecord(JInt(1), JInt(2), "none", "none", "none") EXCEPT !.events = ev] :
                ev \in EventInputs}

\* the answers of the upstream: with or without a configured key
Responses ==
    LET Statuses == {200, 399, 400, 404, 500}
        Bodies ==
            {Body(FALSE, "text", FALSE, JNull), Body(TRUE, "dict", TRUE, JStr("rate limited")),
             Body(TRUE, "dict", TRUE, JNull), Body(TRUE, "dict", FALSE, JNull),
             Body(TRUE, "list", FALSE, JNull), Body(TRUE, "str", FALSE, JNull),
             Body(TRUE, "null", FALSE, JNull), Body(TRUE, "int", FALSE, JNull)}
    IN  {[key |-> key, status |-> s, body |-> b] :
            key \in BOOLEAN, s \in Statuses, b \in Bodies}

(***************************************************************************)
(* SpecText: a text function, the renderer or a client's _get applied to   *)
(* one drawn input.                                                        *)
(***************************************************************************)
InitText ==
    /\ op = "idle"
    /\ calls = <<>>
    /\ out = NoOut
    /\ \/ \E v \in NameInputs : arg = [fn |-> "clean_name", v |-> v]
       \/ \E v \in PosInputs : arg = [fn |-> "pos_bucket", v |-> v]
       \/ \E v \in XiInputs : arg = [fn |-> "format_xi", v |-> v]
       \/ \E v \in RenderInputs : arg = [fn |-> "report", v |-> v]
       \/ \E v \in Responses, c \in {"main_get", "report_get"} : arg = [fn |-> c, v |-> v]

CleanName ==
    /\ op = "idle" /\ arg.fn = "clean_name"
    /\ op' = "clean_name"
    /\ out' = [kind |-> "name", s |-> _clean_name(arg.v)]
    /\ UNCHANGED <<arg, calls>>

\* the cleaned name is cleaned again
CleanAgain ==
    /\ op = "clean_name"
    /\ op' = "clean_again"
    /\ out' = [kind |-> "name", s |-> _clean_name(Name(out.s))]
    /\ UNCHANGED <<arg, calls>>

PosBucket ==
    /\ op = "idle" /\ arg.fn = "pos_bucket"
    /\ op' = "pos_bucket"
    /\ out' = [kind |-> "bucket", k |-> _pos_bucket(arg.v)]
    /\ UNCHANGED <<arg, calls>>

FormatXi ==
    /\ op = "idle" /\ arg.fn = "format_xi"
    /\ op' = "format_xi"
    /\ out' = [kind |-> "xi", lines |-> _format_xi(arg.v)]
    /\ UNCHANGED <<arg, calls>>

GenerateReport ==
    /\ op = "idle" /\ arg.fn = "report"
    /\ op' = "generate_report"
    /\ out' = [kind |-> "text", lines |-> generate_report_main(arg.v)]
    /\ UNCHANGED <<arg, calls>>

MainGet ==
    /\ op = "idle" /\ arg.fn = "main_get"
    /\ op' = "get"
    /\ out' = SoccerDataApi_get(arg.v)
    /\ UNCHANGED <<arg, calls>>

ReportGet ==
    /\ op = "idle" /\ arg.fn = "report_get"
    /\ op' = "get"
    /\ out' = API_get(arg.v)
    /\ UNCHANGED <<arg, calls>>

NextText ==
    \/ CleanName
    \/ CleanAgain
    \/ PosBucket
    \/ FormatXi
    \/ GenerateReport
    \/ MainGet
    \/ ReportGet

SpecText == InitText /\ [][NextText]_vars

(***************************************************************************)
(* Claims about the text functions, the renderer and the clients (checked  *)
(* under SpecText).                                                        *)
(***************************************************************************)
\* C11: name cleaning is idempotent: for every input (None, empty, blank,
\* "none"/"null" in any case, "TBD", any other string) cleaning the cleaned
\* name gives the same name, and a cleaned name is never empty and never a
\* case variant of "none" or "null".
C11_CleanNameIdempotent ==
    /\ [](op \in {"clean_name", "clean_again"}
          => /\ out.s # <<>>
             /\ Lower(out.s) \notin {<<"n", "o", "n", "e">>, <<"n", "u", "l", "l">>})
    /\ [][(op = "clean_name" /\ op' = "clean_again") => out'.s = out.s]_vars

\* " None " cleaned twice is "TBD"
C11_Witness ==
    /\ op = "clean_again"
    /\ arg.v = Name(<<" ", "N", "o", "n", "e", " ">>)
    /\ out.s = TBD

\* " no " cleaned twice is "no"
C11_WitnessKept ==
    /\ op = "clean_again"
    /\ arg.v = Name(<<" ", "n", "o", " ">>)
    /\ out.s = <<"n", "o">>

\* C12: whenever the upstream answers with an HTTP status >= 400, the
\* client's fetch fails with an upstream error that carries the status code
\* and the detail: the body's detail field if the body is an object that has
\* one, otherwise the whole body (an object without detail, a list, a
\* scalar).  Stated for the bodies that are JSON; a body that is not JSON is
\* the invalid-response failure in both clients.
C12_ErrorCarriesStatusAndDetail ==
    (op = "get" /\ arg.v.key /\ arg.v.body.json /\ arg.v.status >= 400)
    => /\ out.kind = "raise"
       /\ out.msg.form = "HTTP"
       /\ out.msg.status = arg.v.status
       /\ out.msg.detail.body = arg.v.body
       /\ out.msg.detail.of =
            (IF arg.v.body.k = "dict" /\ arg.v.body.has_detail THEN "detail" ELSE "body")

C14_SecRank(sec) ==
    CASE sec = "header" -> 1 [] sec = "score" -> 2 [] sec = "preview" -> 3
      [] sec = "table" -> 4 [] sec = "odds" -> 5 [] sec = "lineups" -> 6
      [] sec = "events" -> 7

C14_HasSection(sec) == \E j \in 1..Len(out.lines) : out.lines[j].sec = sec

C14_HasLine(sec, t) ==
    \E j \in 1..Len(out.lines) : out.lines[j].sec = sec /\ out.lines[j].t = t

\* C14: in every report of generate_report_main the sections present appear
\* in the order header, status/score, preview, table snapshot, odds,
\* lineups, events; header and status/score are always present; each other
\* section contributes no line when its backing data is absent.
C14_SectionOrder ==
    op = "generate_report"
    => /\ \A j \in 1..(Len(out.lines) - 1) :
            C14_SecRank(out.lines[j].sec) <= C14_SecRank(out.lines[j + 1].sec)
       /\ C14_HasLine("header", "header")
       /\ C14_HasLine("score", "status") /\ C14_HasLine("score", "score")
       /\ arg.v.detailed_preview = "none" => ~C14_HasSection("preview")
       /\ arg.v.standing = "none" => ~C14_HasSection("table")
       /\ arg.v.odds.k = "none" => ~C14_HasSection("odds")
       /\ arg.v.lineups.k = "none" => ~C14_HasSection("lineups")
       /\ arg.v.events = <<>> => ~C14_HasSection("events")

\* a report with all seven sections
C14_Witness ==
    /\ op = "generate_report"
    /\ \A sec \in {"header", "score", "preview", "table", "odds", "lineups", "events"} :
          C14_HasSection(sec)

\* a report with header and status/score only
C14_WitnessBare ==
    /\ op = "generate_report"
    /\ arg.v.odds.k = "none" /\ arg.v.lineups.k = "none" /\ arg.v.events = <<>>
    /\ \A j \in 1..Len(out.lines) : out.lines[j].sec \in {"header", "score"}

\* the category of an event by its case-insensitive event type
C15_Category(e) ==
    LET t == Lower(e.event_type)
    IN  IF t = <<"g", "o", "a", "l">> THEN "Goals"
        ELSE IF t = <<"y", "e", "l", "l", "o", "w", "_", "c", "a", "r", "d">>
        THEN "Yellow cards"
        ELSE IF t = <<"s", "u", "b", "s", "t", "i", "t", "u", "t", "i", "o", "n">>
        THEN "Substitutions"
        ELSE "Other"

C15_CatRank(cat) ==
    CASE cat = "Goals" -> 1 [] cat = "Yellow cards" -> 2 [] cat = "Substitutions" -> 3
      [] cat = "Other" -> 4

\* the event lines of the report, in the order printed
C15_EventLines ==
    SelectSeq(out.lines, LAMBDA l : l.sec = "events" /\ l.who # <<>>)

\* the events of category Other that precede event j
C15_OthersBefore(j) ==
    Cardinality({m \in 1..(j - 1) : C15_Category(arg.v.events[m]) = "Other"})

\* C15: every event is assigned to exactly one of Goals, Yellow cards,
\* Substitutions, Other by its case-insensitive event type; the categories
\* are printed in that order, each in upstream event order; every goal,
\* yellow card and substitution is printed, and only Other is truncated, to
\* its first 25 events.
C15_EventsPartition ==
    op = "generate_report"
    => LET ev == arg.v.events
           ls == C15_EventLines
       IN  /\ \A j \in 1..Len(ls) :
                 /\ ls[j].who[1] \in DOMAIN ev
                 /\ ls[j].t = C15_Category(ev[ls[j].who[1]])
           /\ \A j \in 1..(Len(ls) - 1) :
                 \/ C15_CatRank(ls[j].t) < C15_CatRank(ls[j + 1].t)
                 \/ ls[j].t = ls[j + 1].t /\ ls[j].who[1] < ls[j + 1].who[1]
           /\ \A m \in DOMAIN ev :
                 LET printed == {j \in 1..Len(ls) : ls[j].who[1] = m}
                 IN  IF C15_Category(ev[m]) = "Other" /\ C15_OthersBefore(m) >= 25
                     THEN printed = {}
                     ELSE Cardinality(printed) = 1

\* a report whose event list has goals and more than 25 events of category
\* Other: the goals and the first 25 others are printed
C15_Witness ==
    /\ op = "generate_report"
    /\ \E m \in DOMAIN arg.v.events : C15_Category(arg.v.events[m]) = "Goals"
    /\ \E m \in DOMAIN arg.v.events : C15_OthersBefore(m) >= 25
    /\ Cardinality({j \in 1..Len(C15_EventLines) : C15_EventLines[j].t = "Other"}) = 25
    /\ \E j \in 1..Len(C15_EventLines) : C15_EventLines[j].t = "Goals"

\* a report with more than 25 goals, all printed
C15_WitnessManyGoals ==
    /\ op = "generate_report"
    /\ Cardinality({j \in 1..Len(C15_EventLines) : C15_EventLines[j].t = "Goals"}) > 25

\* the bucket rules in the order they are tested: a position falls in the
\* first bucket one of whose substrings it contains or one of whose exact
\* forms it equals
C16_Rules ==
    <<[b |-> "GK", subs |-> {<<"g", "o", "a", "l">>}, exact |-> {<<"g", "k">>}],
      [b |-> "DEF", subs |-> {<<"d", "e", "f">>}, exact |-> {<<"d">>}],
      [b |-> "MID", subs |-> {<<"m", "i", "d">>}, exact |-> {<<"m">>}],
      [b |-> "ATT", subs |-> {<<"a", "t", "t">>, <<"f", "o", "r", "w">>},
       exact |-> {<<"f">>}]>>

\* the rules as the claim words them: every form is a substring
C16_SubstringRules ==
    [j \in DOMAIN C16_Rules |->
        [b |-> C16_Rules[j].b, subs |-> C16_Rules[j].subs \cup C16_Rules[j].exact,
         exact |-> {}]]

C16_Matches(p, rule) == (\E s \in rule.subs : Contains(p, s)) \/ p \in rule.exact

C16_BucketBy(rules, pos) ==
    LET p == Lower(Strip(IF pos.none THEN <<>> ELSE pos.s))
        hits == {j \in DOMAIN rules : C16_Matches(p, rules[j])}
    IN  IF hits = {} THEN "OTHER"
        ELSE rules[CHOOSE j \in hits : \A m \in hits : j <= m].b

\* _format_xi puts each of the first 11 entries, and no later entry, in
\* exactly one bucket line, the line of its bucket by the rules; it prints
\* "XI: Not available" only when there are no entries
C16_XiPlaced(rules) ==
    LET ls == out.lines
        first == 1..(IF Len(arg.v) < 11 THEN Len(arg.v) ELSE 11)
        Shown(j, m) == \E q \in DOMAIN ls[j].who : ls[j].who[q] = m
    IN  /\ \A m \in first :
              /\ Cardinality({j \in DOMAIN ls : Shown(j, m)}) = 1
              /\ \A j \in DOMAIN ls : Shown(j, m) => ls[j].k = C16_BucketBy(rules, arg.v[m])
        /\ \A j \in DOMAIN ls : \A q \in DOMAIN ls[j].who : ls[j].who[q] \in first
        /\ (\E j \in DOMAIN ls : ls[j].k = "XI: Not available") <=> arg.v = <<>>

\* C16 (amended): _pos_bucket trims and lowers the position and returns the
\* first of GK ("goal" as a substring, or exactly "gk"), DEF ("def", or
\* exactly "d"), MID ("mid", or exactly "m"), ATT ("att" or "forw", or
\* exactly "f") that matches, else OTHER; _format_xi places each of the
\* first 11 lineup entries (and no later entry) in exactly one bucket line
\* and prints "XI: Not available" only when there are no entries.
C16_BucketsAndXi ==
    /\ op = "pos_bucket" => out.k = C16_BucketBy(C16_Rules, arg.v)
    /\ op = "format_xi" => C16_XiPlaced(C16_Rules)

\* C16 as worded: every form, the abbreviations "gk", "d", "m", "f"
\* included, is matched as a substring.
C16_Original ==
    /\ op = "pos_bucket" => out.k = C16_BucketBy(C16_SubstringRules, arg.v)
    /\ op = "format_xi" => C16_XiPlaced(C16_SubstringRules)

\* a lineup of 12 entries: the first 11 are placed, the 12th is not
C16_Witness ==
    /\ op = "format_xi"
    /\ Len(arg.v) = 12
    /\ \A m \in 1..11 : \E j \in DOMAIN out.lines : \E q \in DOMAIN out.lines[j].who :
          out.lines[j].who[q] = m
    /\ Cardinality({out.lines[j].k : j \in DOMAIN out.lines}) > 1

\* " D " is a defender; "dm" matches no rule
C16_WitnessAbbreviation ==
    /\ op = "pos_bucket"
    /\ \/ arg.v = Name(<<" ", "D", " ">>) /\ out.k = "DEF"
       \/ arg.v = Name(<<"d", "m">>) /\ out.k = "OTHER"

(***************************************************************************)
(* Claims about the request handlers (checked under Spec).                 *)
(***************************************************************************)
\* the configured allow-list of league ids
AllowedLeagues == {228, 326, 310, 322, 323, 198, 235, 241, 253, 297, 299, 168}

\* C13: upcoming-match output never contains a match of a league whose id
\* is outside the allow-list, for every upstream payload and every request,
\* with or without a league_id parameter.
C13_UpcomingOnlyAllowedLeagues ==
    (op = "dataset_upcoming" /\ out.status = HttpOk)
    => \A j \in 1..Len(out.body.items) :
          LET lid == Get(out.body.items[j].lid)
          IN  lid.k = "int" => lid.n \in AllowedLeagues

\* the raw match payloads of the request, by the index their fetches carry
C17_Matches ==
    IF op \in {"report", "dataset_match"} THEN <<arg.w.match>>
    ELSE IF op = "dataset_matches" THEN [i \in DOMAIN arg.ws |-> arg.ws[i].match]
    ELSE <<>>

C17_Fetched(ep, i) == \E j \in 1..Len(calls) : calls[j] = Call(ep, i)

C17_Present(v) == v.k \notin {"missing", "null"}

\* C17: in both pipelines, for every raw match payload, the match-preview
\* fetch is issued only if match_preview.has_preview is exactly true, the
\* standing fetch only if a league id is present, and the head-to-head fetch
\* only if both team ids are present and differ (so never for a match whose
\* home and away ids are equal or missing).
C17_FetchOnlyWhenDue ==
    \A i \in DOMAIN C17_Matches :
        LET m == C17_Matches[i]
            home == TeamId(m, "home")
            away == TeamId(m, "away")
        IN  /\ C17_Fetched("match-preview/", i) => m.mp = "true"
            /\ C17_Fetched("standing/", i) => C17_Present(Get(m.league))
            /\ C17_Fetched("head-to-head/", i)
                 => C17_Present(home) /\ C17_Present(away) /\ home # away

\* the report command has fetched all three enrichments of a match that
\* has a preview, a league and two different teams
C17_Witness ==
    /\ op = "report"
    /\ arg.w.match = GoodMatch
    /\ \A ep \in {"match-preview/", "standing/", "head-to-head/"} : C17_Fetched(ep, 1)

\* _bundle has fetched preview and standing, and no head-to-head, of a match
\* whose two team ids are equal
C17_WitnessSameTeam ==
    /\ op = "dataset_match"
    /\ arg.w.match = MatchDict(AllKeys, "true", JInt(228), "dict", JInt(1), JInt(1))
    /\ C17_Fetched("match-preview/", 1) /\ C17_Fetched("standing/", 1)
    /\ ~C17_Fetched("head-to-head/", 1)

\* the report command has fetched nothing but the match when has_preview is
\* truthy without being true and the league id is 0
C17_WitnessNothingDue ==
    /\ op = "report"
    /\ arg.w.match = MatchDict(AllKeys, "truthy", JInt(0), "dict", JNull, JInt(2))
    /\ calls = <<Call("match/", 1)>>

====
